---------------------------- MODULE Spec2Model ----------------------------
(***************************************************************************)
(* German vocabulary app (src/app.py): the bulk ingestion form, the        *)
(* language-model response parser get_word_details, the spreadsheet store  *)
(* (load_data / save_new_word) and the Anki export section, as one state   *)
(* machine.  One Streamlit script run is: the form block (when submitted), *)
(* then the export block.  Python strings are TLA+ strings; Head, Tail,    *)
(* SubSeq, Len and \o act on them character by character.                  *)
(***************************************************************************)
EXTENDS Integers, Sequences, FiniteSets, TLC

\* ------------------------------------------------------------- bounds
\* Longest token list a submitted form holds.
MaxBatch == 2
\* Number of form submissions explored.
MaxRuns == 2

\* ------------------------------------------------------ python strings
LowerAlpha == "abcdefghijklmnopqrstuvwxyz"
UpperAlpha == "ABCDEFGHIJKLMNOPQRSTUVWXYZ"
Whitespace == {" ", "\n", "\t"}

CharAt(s, k) == SubSeq(s, k, k)

\* The letters str.lower() changes, each with its lower-case form.
LowerOf == [c \in {CharAt(UpperAlpha, k) : k \in 1..Len(UpperAlpha)} |->
              CharAt(LowerAlpha, CHOOSE k \in 1..Len(UpperAlpha) : CharAt(UpperAlpha, k) = c)]

\* The letters str.upper() changes, each with its upper-case form.
UpperOf == [c \in {CharAt(LowerAlpha, k) : k \in 1..Len(LowerAlpha)} |->
              CharAt(UpperAlpha, CHOOSE k \in 1..Len(LowerAlpha) : CharAt(LowerAlpha, k) = c)]

RECURSIVE MapStr(_, _)
MapStr(s, map) ==
    IF s = "" THEN ""
    ELSE (IF Head(s) \in DOMAIN map THEN map[Head(s)] ELSE Head(s)) \o MapStr(Tail(s), map)

\* str.lower()
Lower(s) == MapStr(s, LowerOf)

\* str.upper()
Upper(s) == MapStr(s, UpperOf)

\* s.startswith(p)
StartsWith(s, p) == Len(p) <= Len(s) /\ SubSeq(s, 1, Len(p)) = p

RECURSIVE LStrip(_)
LStrip(s) ==
    IF s # "" /\ Head(s) \in Whitespace THEN LStrip(Tail(s)) ELSE s

RECURSIVE RStrip(_)
RStrip(s) ==
    IF s # "" /\ CharAt(s, Len(s)) \in Whitespace
    THEN RStrip(SubSeq(s, 1, Len(s) - 1))
    ELSE s

\* str.strip()
Strip(s) == RStrip(LStrip(s))

\* s.find(sub) from position k on: the first index at which sub occurs, 0 when
\* there is none.
RECURSIVE FindFrom(_, _, _)
FindFrom(s, sub, k) ==
    IF k + Len(sub) - 1 > Len(s) THEN 0
    ELSE IF SubSeq(s, k, k + Len(sub) - 1) = sub THEN k
    ELSE FindFrom(s, sub, k + 1)

\* s.split(sep) for a non-empty separator: always at least one part.
RECURSIVE Split(_, _)
Split(s, sep) ==
    LET k == FindFrom(s, sep, 1)
    IN  IF k = 0 THEN <<s>>
        ELSE <<SubSeq(s, 1, k - 1)>> \o Split(SubSeq(s, k + Len(sep), Len(s)), sep)

\* sub in s
Contains(s, sub) == sub = "" \/ FindFrom(s, sub, 1) # 0

\* x in list
InList(x, list) == \E k \in 1..Len(list) : list[k] = x

\* [p.strip() for p in parts]
RECURSIVE StripAll(_)
StripAll(parts) ==
    IF parts = <<>> THEN <<>>
    ELSE <<Strip(Head(parts))>> \o StripAll(Tail(parts))

\* ------------------------------------------------------------ the store
headers == <<"Article", "Word", "Plural", "Hungarian", "Sentence_DE", "Sentence_HU">>

\* One row as a record of the six columns: a short row reads back with
\* empty cells for the missing columns.
PadRow(row) == <<IF Len(row) >= 1 THEN row[1] ELSE "",
                 IF Len(row) >= 2 THEN row[2] ELSE "",
                 IF Len(row) >= 3 THEN row[3] ELSE "",
                 IF Len(row) >= 4 THEN row[4] ELSE "",
                 IF Len(row) >= 5 THEN row[5] ELSE "",
                 IF Len(row) >= 6 THEN row[6] ELSE "">>

RECURSIVE PadRows(_)
PadRows(rows) ==
    IF rows = <<>> THEN <<>>
    ELSE <<PadRow(Head(rows))>> \o PadRows(Tail(rows))

\* load_data: the rows below the header row, in sheet order.
load_data(sh) == IF Len(sh) <= 1 THEN <<>> ELSE PadRows(Tail(sh))

RECURSIVE WordColumnLower(_)
WordColumnLower(df) ==
    IF df = <<>> THEN <<>>
    ELSE <<Lower(Head(df)[2])>> \o WordColumnLower(Tail(df))

RECURSIVE WordColumn(_)
WordColumn(df) ==
    IF df = <<>> THEN <<>>
    ELSE <<Head(df)[2]>> \o WordColumn(Tail(df))

\* The snapshot built without .str.lower().
ExistingWordsNoLower(df) == WordColumn(df)

RECURSIVE ArticleColumnLower(_)
ArticleColumnLower(df) ==
    IF df = <<>> THEN <<>>
    ELSE <<Lower(Head(df)[1])>> \o ArticleColumnLower(Tail(df))

\* The snapshot built from the wrong column, df["Article"].
ExistingWordsFromArticle(df) == ArticleColumnLower(df)

\* existing_words = df["Word"].astype(str).str.lower().values
ExistingWords(df) == WordColumnLower(df)

\* Outcomes of one save_new_word call: it succeeds, get_google_sheet fails
\* (st.error, st.stop), or append_row of the data row raises.
SaveOutcomes == {"ok", "no_connection", "append_error"}

\* save_new_word whose append_row raises after the row has been written.
save_new_word_writes_then_fails(sh, data_list, how) ==
    LET withHeader == IF Len(sh) = 0 THEN Append(sh, headers) ELSE sh
    IN  CASE how = "ok" ->
               [sheet |-> Append(withHeader, data_list), ok |-> TRUE,
                status |-> ""]
          [] how = "no_connection" ->
               [sheet |-> sh, ok |-> FALSE, status |-> "connection_error"]
          [] OTHER ->
               [sheet |-> Append(withHeader, data_list), ok |-> FALSE,
                status |-> "exception"]

\* save_new_word inserting the row right below the header (insert_row(data, 2))
\* instead of appending it.
save_new_word_inserts_on_top(sh, data_list, how) ==
    LET withHeader == IF Len(sh) = 0 THEN Append(sh, headers) ELSE sh
    IN  CASE how = "ok" ->
               [sheet |-> <<Head(withHeader), data_list>> \o Tail(withHeader),
                ok |-> TRUE, status |-> ""]
          [] how = "no_connection" ->
               [sheet |-> sh, ok |-> FALSE, status |-> "connection_error"]
          [] OTHER ->
               [sheet |-> withHeader, ok |-> FALSE, status |-> "exception"]

\* save_new_word: header row first when the sheet holds no values.
save_new_word(sh, data_list, how) ==
    LET withHeader == IF Len(sh) = 0 THEN Append(sh, headers) ELSE sh
    IN  CASE how = "ok" ->
               [sheet |-> Append(withHeader, data_list), ok |-> TRUE,
                status |-> ""]
          [] how = "no_connection" ->
               [sheet |-> sh, ok |-> FALSE, status |-> "connection_error"]
          [] OTHER ->
               [sheet |-> withHeader, ok |-> FALSE, status |-> "exception"]

\* ------------------------------------------------------ get_word_details
\* The schema line the service may echo before the data line.
SchemaLine == "Article | Word | Plural | Hungarian | German Sentence | Hungarian Sentence"

\* What client.chat.completions.create can do: answer with text, or raise.
TextResponse(content) == [kind |-> "text", content |-> content]
TransportError == [kind |-> "error", content |-> ""]
NotCalled == [kind |-> "none", content |-> ""]

Responses ==
    { TextResponse(SchemaLine \o "\n" \o
          "der | Hund | Hunde | kutya | Der Hund bellt. | A kutya ugat."),
      TextResponse("die|die Katze|Katzen|macska|Die Katze schlaeft."),
      TextResponse("- | der Hund | Hunde | kutya | Der Hund bellt. | A kutya ugat."),
      TextResponse("Der | Hund | Hunde"),
      TextResponse("INVALID"),
      TextResponse(SchemaLine \o "\n"),
      TransportError }

\* The loop over lines: the first line that is not the schema line and is
\* not blank, stripped; "" when there is none.
RECURSIVE FinalDataLine(_)
FinalDataLine(lines) ==
    IF lines = <<>> THEN ""
    ELSE IF Contains(Head(lines), "Article | Word") THEN FinalDataLine(Tail(lines))
    ELSE IF Strip(Head(lines)) # "" THEN Strip(Head(lines))
    ELSE FinalDataLine(Tail(lines))

NounArticles == {"der", "die", "das"}

None == [tag |-> "None", parts |-> <<>>]
Raised == [tag |-> "Raised", parts |-> <<>>]
Parts(p) == [tag |-> "parts", parts |-> p]

\* The body of the try block: Raised stands for an exception leaving it
\* (the API call raising, or parts[1] on a one-field line).
get_word_details_try(resp) ==
    IF resp.kind # "text" THEN Raised
    ELSE
    LET raw_answer == Strip(resp.content)
        final_data_line == FinalDataLine(Split(raw_answer, "\n"))
        split == IF Contains(final_data_line, " | ")
                 THEN Split(final_data_line, " | ")
                 ELSE Split(final_data_line, "|")
        stripped == StripAll(split)
        parts == IF Len(stripped) = 5 THEN Append(stripped, "") ELSE stripped
    IN  IF Contains(Upper(final_data_line), "INVALID") THEN None
        ELSE IF Len(parts) < 2 THEN Raised
        ELSE LET article == Lower(parts[1])
                 word == parts[2]
             IN  IF StartsWith(Lower(word), article \o " ") /\ article \in NounArticles
                 THEN Parts([parts EXCEPT
                        ![2] = Strip(SubSeq(word, Len(article) + 1, Len(word)))])
                 ELSE Parts(parts)

\* The try block's result for each answer of the service, computed once.
TryBlock == [resp \in Responses |-> get_word_details_try(resp)]

\* get_word_details without its except clause: the exception reaches the loop.
get_word_details_no_catch(resp) == TryBlock[resp]

\* get_word_details: except Exception: return None
get_word_details(resp) ==
    IF TryBlock[resp].tag = "Raised" THEN None ELSE TryBlock[resp]

\* ------------------------------------------------------- the bulk form
Tokens == {"hund", "Hunde"}

RECURSIVE SeqsUpTo(_, _)
SeqsUpTo(S, n) ==
    IF n = 0 THEN {<<>>}
    ELSE LET shorter == SeqsUpTo(S, n - 1)
         IN  shorter \cup {Append(q, e) : q \in {p \in shorter : Len(p) = n - 1}, e \in S}

\* word_list after splitting and dropping blank entries, when not empty.
TokenLists == SeqsUpTo(Tokens, MaxBatch) \ {<<>>}

\* if word.lower() in existing_words
PreDup(word, existing) == InList(Lower(word), existing)

\* The post-lemmatization check comparing the word as the service spelled it.
PostDupCaseSensitive(clean_word, existing) == InList(clean_word, existing)

\* if clean_word.lower() in existing_words
PostDup(clean_word, existing) == InList(Lower(clean_word), existing)

\* The loop without lines 169-170: the set is not grown after an append.
GrowExistingNot(existing, clean_word) == existing

\* existing_words = list(existing_words); existing_words.append(clean_word.lower())
GrowExisting(existing, clean_word) == Append(existing, Lower(clean_word))

Outcome(token, kind, details) == [token |-> token, kind |-> kind, details |-> details]

\* ---------------------------------------------------------- anki export
\* The two flag glyphs of the card back, written in ASCII.
FlagDE == "(DE)"
FlagHU == "(HU)"

\* The front built without the test for the "-" article.
FrontAlwaysArticle(x) == x[1] \o " " \o x[2]

Front(x) == IF x[1] # "-" THEN x[1] \o " " \o x[2] ELSE x[2]

Back(x) ==
    x[4] \o "<br><br>Plural: " \o x[3] \o "<br>" \o FlagDE \o " " \o x[5]
         \o "<br>" \o FlagHU \o " " \o x[6]

RECURSIVE AnkiRows(_)
AnkiRows(df) ==
    IF df = <<>> THEN <<>>
    ELSE <<[Front |-> Front(Head(df)), Back |-> Back(Head(df))]>> \o AnkiRows(Tail(df))

\* ---------------------------------------------------------------- state
VARIABLES
    sheet,           \* rows of the spreadsheet, header row first
    pc,              \* "loop", "idle" (run ended), "stopped" (run halted)
    word_list,       \* tokens of the submitted form
    i,               \* tokens of word_list already processed
    existing_words,  \* the lower-cased words the loop checks against
    success_count,
    outcomes,        \* one toast per processed token, in order
    answers,         \* per processed token, the service's answer or NotCalled
    sheet0,          \* the sheet when the current run started
    status,          \* the message the run shows last
    failedAt,        \* where a halted run failed: "load", "save", "normalize", "export"
    anki,            \* anki_df of the export block
    runs,            \* form submissions so far
    rerun,           \* the current batch repeats the batch completed just before it
    prevAns,         \* the answers of that earlier batch
    completed        \* the last batch reached the end of its loop

vars == <<sheet, pc, word_list, i, existing_words, success_count, outcomes,
          answers, sheet0, status, failedAt, anki, runs, rerun, prevAns, completed>>

HundRecord == <<"der", "Hund", "Hunde", "kutya", "Der Hund bellt.", "A kutya ugat.">>

\* The sheet when the page is first shown: no values at all, only the header
\* row, or one record below the header.
InitialSheets == {<<>>, <<headers>>, <<headers, HundRecord>>}

Init ==
    /\ sheet \in InitialSheets
    /\ pc = "idle"
    /\ word_list = <<>>
    /\ i = 0
    /\ existing_words = <<>>
    /\ success_count = 0
    /\ outcomes = <<>>
    /\ answers = <<>>
    /\ sheet0 = sheet
    /\ status = ""
    /\ failedAt = ""
    /\ anki = AnkiRows(load_data(sheet))
    /\ runs = 0
    /\ rerun = FALSE
    /\ prevAns = <<>>
    /\ completed = FALSE

\* The export block that ends every run not stopped earlier: load_data, then
\* the Front and Back columns; or get_google_sheet fails and the run stops.
\* shown is the message the form block left on the page.
ExportBlock(ok, shown) ==
    IF ok
    THEN /\ anki' = AnkiRows(load_data(sheet))
         /\ pc' = "idle"
         /\ status' = shown
         /\ failedAt' = ""
    ELSE /\ anki' = <<>>
         /\ pc' = "stopped"
         /\ status' = "connection_error"
         /\ failedAt' = "export"

\* The form is submitted with a non-empty word list: load_data, then the
\* loop starts; or get_google_sheet fails and the run stops.  With repeat the
\* user submits the text of the batch completed just before, and the service
\* (temperature 0) will answer each token as it did then.
Submit(tokens, ok, repeat) ==
    /\ pc \in {"idle", "stopped"}
    /\ runs < MaxRuns
    /\ repeat => (completed /\ ok /\ tokens = word_list)
    /\ runs' = runs + 1
    /\ word_list' = tokens
    /\ i' = 0
    /\ success_count' = 0
    /\ outcomes' = <<>>
    /\ answers' = <<>>
    /\ sheet0' = sheet
    /\ anki' = <<>>
    /\ rerun' = repeat
    /\ prevAns' = IF repeat THEN answers ELSE <<>>
    /\ completed' = FALSE
    /\ IF ok
       THEN /\ existing_words' = ExistingWords(load_data(sheet))
            /\ pc' = "loop"
            /\ status' = "processing"
            /\ failedAt' = ""
       ELSE /\ existing_words' = <<>>
            /\ pc' = "stopped"
            /\ status' = "connection_error"
            /\ failedAt' = "load"
    /\ UNCHANGED sheet

\* The form is submitted with text that holds no token: a warning, then the
\* export block.
SubmitEmpty(ok) ==
    /\ pc \in {"idle", "stopped"}
    /\ runs < MaxRuns
    /\ runs' = runs + 1
    /\ word_list' = <<>>
    /\ i' = 0
    /\ success_count' = 0
    /\ outcomes' = <<>>
    /\ answers' = <<>>
    /\ existing_words' = <<>>
    /\ sheet0' = sheet
    /\ rerun' = FALSE
    /\ prevAns' = <<>>
    /\ completed' = FALSE
    /\ ExportBlock(ok, "warn_empty")
    /\ UNCHANGED sheet

\* One iteration of the loop over word_list.  The service's answer resp is
\* drawn only when get_word_details is called, and the store's behaviour how
\* only when save_new_word is called.
ProcessToken ==
    /\ pc = "loop"
    /\ i < Len(word_list)
    /\ LET word == word_list[i + 1]
       IN  IF PreDup(word, existing_words)
           THEN /\ outcomes' = Append(outcomes, Outcome(word, "SkippedDuplicate", <<>>))
                /\ answers' = Append(answers, NotCalled)
                /\ i' = i + 1
                /\ UNCHANGED <<sheet, existing_words, success_count, pc, status, failedAt>>
           ELSE \E resp \in Responses :
                /\ (rerun /\ prevAns[i + 1].kind # "none") => resp = prevAns[i + 1]
                /\ answers' = Append(answers, resp)
                /\ LET details == get_word_details(resp)
                       clean_word == details.parts[2]
                   IN  IF details.tag = "Raised"
                       THEN /\ pc' = "stopped"
                            /\ status' = "exception"
                            /\ failedAt' = "normalize"
                            /\ UNCHANGED <<sheet, existing_words, success_count, outcomes, i>>
                       ELSE IF details.tag = "None" \/ details.parts = <<>>
                       THEN /\ outcomes' = Append(outcomes,
                                               Outcome(word, "RejectedInvalid", <<>>))
                            /\ i' = i + 1
                            /\ UNCHANGED <<sheet, existing_words, success_count, pc,
                                           status, failedAt>>
                       ELSE IF PostDup(clean_word, existing_words)
                       THEN /\ outcomes' = Append(outcomes,
                                               Outcome(word, "SkippedResolved", details.parts))
                            /\ i' = i + 1
                            /\ UNCHANGED <<sheet, existing_words, success_count, pc,
                                           status, failedAt>>
                       ELSE \E how \in SaveOutcomes :
                            LET saved == save_new_word(sheet, details.parts, how)
                            IN  /\ sheet' = saved.sheet
                                /\ IF saved.ok
                                   THEN /\ outcomes' = Append(outcomes,
                                                 Outcome(word, "Accepted", details.parts))
                                        /\ success_count' = success_count + 1
                                        /\ existing_words' =
                                               GrowExisting(existing_words, clean_word)
                                        /\ i' = i + 1
                                        /\ UNCHANGED <<pc, status, failedAt>>
                                   ELSE /\ pc' = "stopped"
                                        /\ status' = saved.status
                                        /\ failedAt' = "save"
                                        /\ UNCHANGED <<existing_words, success_count,
                                                       outcomes, i>>
    /\ UNCHANGED <<word_list, sheet0, anki, runs, rerun, prevAns, completed>>

\* After the loop: the summary message, then the script goes on to the
\* export block.
Finish(ok) ==
    /\ pc = "loop"
    /\ i = Len(word_list)
    /\ completed' = TRUE
    /\ ExportBlock(ok, IF success_count > 0 THEN "success" ELSE "none_added")
    /\ UNCHANGED <<sheet, word_list, i, existing_words, success_count, outcomes,
                   answers, sheet0, runs, rerun, prevAns>>

\* The page is run again without a submitted form: only the export block runs.
Refresh(ok) ==
    /\ pc \in {"idle", "stopped"}
    /\ word_list' = <<>>
    /\ i' = 0
    /\ success_count' = 0
    /\ outcomes' = <<>>
    /\ answers' = <<>>
    /\ existing_words' = <<>>
    /\ sheet0' = sheet
    /\ rerun' = FALSE
    /\ prevAns' = <<>>
    /\ completed' = FALSE
    /\ ExportBlock(ok, "")
    /\ UNCHANGED <<sheet, runs>>

Next ==
    \/ \E tokens \in TokenLists, ok \in BOOLEAN, repeat \in BOOLEAN :
            Submit(tokens, ok, repeat)
    \/ \E ok \in BOOLEAN : SubmitEmpty(ok)
    \/ ProcessToken
    \/ \E ok \in BOOLEAN : Finish(ok)
    \/ \E ok \in BOOLEAN : Refresh(ok)

Spec == Init /\ [][Next]_vars

\* The loop is straight-line code between blocking calls: an iteration that
\* can run does run, and so does the block after the loop.
LiveSpec ==
    /\ Init
    /\ [][Next]_vars
    /\ WF_vars(ProcessToken)
    /\ WF_vars(\E ok \in BOOLEAN : Finish(ok))

\* ================================================================ claims
\* The rows below the header row, as they were appended.
DataRows(sh) == IF Len(sh) <= 1 THEN <<>> ELSE Tail(sh)

\* The records of the Accepted outcomes, in order.
RECURSIVE AcceptedDetails(_)
AcceptedDetails(outs) ==
    IF outs = <<>> THEN <<>>
    ELSE (IF Head(outs).kind = "Accepted" THEN <<Head(outs).details>> ELSE <<>>)
         \o AcceptedDetails(Tail(outs))

\* The lower-cased words of the records in the store when the batch started.
WordsAtStart == {Lower(load_data(sheet0)[k][2]) : k \in 1..Len(load_data(sheet0))}

\* Those, and the lower-cased words accepted before the k-th token.
KnownBefore(k) ==
    WordsAtStart \cup
    {Lower(outcomes[j].details[2]) :
        j \in {h \in 1..(k - 1) : h <= Len(outcomes) /\ outcomes[h].kind = "Accepted"}}

ValidArticles == {"der", "die", "das", "-"}

\* The answers of the service that carry a data line of two or more fields.
RecordResponses ==
    {r \in Responses : r.kind = "text" /\ r.content # "INVALID"
                       /\ r.content # SchemaLine \o "\n"}

\* ------------------------------------------------------------------ C1
\* C1: the store never holds two records whose words are equal ignoring
\* case, whatever batches ran and whatever the service answered.
C1_UniqueWords ==
    \A a, b \in 1..Len(load_data(sheet)) :
        a # b => Lower(load_data(sheet)[a][2]) # Lower(load_data(sheet)[b][2])

\* Two batches have run, the store holds two records or more, and the last
\* batch skipped a token whose lemma was already stored.
C1_Witness ==
    /\ runs = 2
    /\ pc = "idle"
    /\ completed
    /\ Len(load_data(sheet)) >= 2
    /\ \E k \in 1..Len(outcomes) : outcomes[k].kind = "SkippedResolved"

\* ------------------------------------------------------------------ C2
\* C2: an iteration on a token whose lower-case form is the lower-cased word
\* of a record in the store at batch start does not call the service, appends
\* nothing and ends in a duplicate-skip outcome.
C2_PresentTokenSkipped ==
    [][(pc = "loop" /\ i < Len(word_list) /\ Lower(word_list[i + 1]) \in WordsAtStart)
        => /\ pc' = "loop"
           /\ i' = i + 1
           /\ sheet' = sheet
           /\ answers' = Append(answers, NotCalled)
           /\ outcomes' = Append(outcomes,
                                 Outcome(word_list[i + 1], "SkippedDuplicate", <<>>))]_vars

\* The store held "Hund" at batch start and the token "hund" was skipped
\* without a call.
C2_Witness ==
    /\ load_data(sheet0) # <<>>
    /\ load_data(sheet0)[1][2] = "Hund"
    /\ \E k \in 1..Len(outcomes) :
          /\ word_list[k] = "hund"
          /\ outcomes[k].kind = "SkippedDuplicate"
          /\ answers[k] = NotCalled

\* ------------------------------------------------------------------ C3
\* The answers the claim calls a failed normalization.
FailedNormalization(resp) ==
    \/ resp = TransportError
    \/ resp = TextResponse("INVALID")
    \/ resp = TextResponse(SchemaLine \o "\n")

\* C3: every iteration adds exactly one outcome, for its own token, unless the
\* store fails; a failed normalization gives RejectedInvalid and leaves the
\* loop running; the block after the loop sees one outcome per token, in
\* order; and a batch in its loop always leaves it.
C3_BatchCompletes ==
    /\ [][/\ (pc = "loop" /\ i < Len(word_list)) =>
                /\ pc' = "stopped" => failedAt' = "save"
                /\ pc' = "loop" =>
                      /\ i' = i + 1
                      /\ Len(outcomes') = i'
                      /\ SubSeq(outcomes', 1, i) = outcomes
                      /\ outcomes'[i'].token = word_list[i']
                /\ (Len(answers') = Len(answers) + 1
                        /\ FailedNormalization(answers'[Len(answers')])) =>
                      /\ pc' = "loop"
                      /\ outcomes'[i'].kind = "RejectedInvalid"
                      /\ sheet' = sheet
          /\ (pc = "loop" /\ i = Len(word_list)) =>
                /\ pc' # "loop"
                /\ completed'
                /\ Len(outcomes') = Len(word_list)
                /\ \A k \in 1..Len(word_list) : outcomes'[k].token = word_list[k]
         ]_vars
    /\ (pc = "loop") ~> (pc # "loop")

\* A completed batch of two tokens: the call for the first raised, the second
\* was accepted.
C3_Witness ==
    /\ completed
    /\ pc = "idle"
    /\ Len(word_list) = 2
    /\ answers[1] = TransportError
    /\ outcomes[1].kind = "RejectedInvalid"
    /\ outcomes[2].kind = "Accepted"

\* ------------------------------------------------------------------ C4
\* C4: a batch that repeats the batch completed just before it, the service
\* answering as before, accepts nothing and leaves the sheet as it found it.
C4_Idempotent ==
    rerun => /\ success_count = 0
             /\ sheet = sheet0
             /\ \A k \in 1..Len(outcomes) : outcomes[k].kind # "Accepted"

\* The first batch stored the Katze record; the repeated batch has completed
\* and the service was asked again for a token.
C4_Witness ==
    /\ rerun
    /\ completed
    /\ runs = 2
    /\ \E k \in 1..Len(load_data(sheet)) : load_data(sheet)[k][2] = "Katze"
    /\ \E k \in 1..Len(outcomes) :
          /\ answers[k].kind = "text"
          /\ answers[k] = prevAns[k]
          /\ outcomes[k].kind = "SkippedResolved"

\* ------------------------------------------------------------------ C5
\* C5: get_word_details gives the loop None or a record of exactly six
\* fields, so every row appended to the sheet has six fields.
C5_SixFields ==
    /\ \A k \in 1..Len(outcomes) :
          outcomes[k].kind \in {"Accepted", "SkippedResolved"}
              => Len(outcomes[k].details) = 6
    /\ \A k \in 1..Len(DataRows(sheet)) : Len(DataRows(sheet)[k]) = 6

\* ------------------------------------------------------------------ C6
ErrorStatuses == {"connection_error", "exception"}

\* C6 as stated: a batch halted by the store shows the error and leaves the
\* records of the store as they were when it started.
C6_NoWritesOnAbort ==
    (pc = "stopped" /\ failedAt \in {"load", "save"})
        => /\ status \in ErrorStatuses
           /\ load_data(sheet) = load_data(sheet0)

\* C6 as amended: a batch halted by the store shows the error, and the failing
\* call writes no record: the store holds the records it held at the start
\* followed by the records accepted earlier in the batch, the token whose
\* save failed has no outcome, and a failure of the initial load leaves the
\* sheet untouched.
C6_AbortKeepsEarlierWrites ==
    (pc = "stopped" /\ failedAt \in {"load", "save"})
        => /\ status \in ErrorStatuses
           /\ DataRows(sheet) = DataRows(sheet0) \o AcceptedDetails(outcomes)
           /\ Len(outcomes) = i
           /\ failedAt = "load" => sheet = sheet0

\* The save of the second token failed after the first was accepted.
C6_Witness ==
    /\ pc = "stopped"
    /\ failedAt = "save"
    /\ success_count = 1
    /\ Len(load_data(sheet)) = Len(load_data(sheet0)) + 1

\* ------------------------------------------------------------------ C7
\* The front the claim prescribes.
ClaimedFront(r) == IF r[1] # "-" THEN r[1] \o " " \o r[2] ELSE r[2]

\* C7 as stated: N pairs in store order, the prescribed fronts, and records
\* that differ never share a pair.
C7_RoundTrip ==
    pc = "idle" =>
        LET recs == load_data(sheet)
        IN  /\ Len(anki) = Len(recs)
            /\ \A k \in 1..Len(recs) : anki[k].Front = ClaimedFront(recs[k])
            /\ \A j, k \in 1..Len(recs) : recs[j] # recs[k] => anki[j] # anki[k]

\* A record whose pair can be split back: a valid article, no noun article
\* leading the word of a record without article, no line-break marker in a field.
Separable(r) ==
    /\ r[1] \in ValidArticles
    /\ r[1] = "-" => \A a \in NounArticles : ~StartsWith(r[2], a \o " ")
    /\ \A f \in 1..6 : ~Contains(r[f], "<br>")

\* C7 as amended: N pairs in store order with the prescribed fronts and backs,
\* and two separable records that differ never share a pair.
C7_ExportPairs ==
    pc = "idle" =>
        LET recs == load_data(sheet)
        IN  /\ Len(anki) = Len(recs)
            /\ \A k \in 1..Len(recs) :
                  /\ anki[k].Front = ClaimedFront(recs[k])
                  /\ anki[k].Back = recs[k][4] \o "<br><br>Plural: " \o recs[k][3]
                                    \o "<br>(DE) " \o recs[k][5]
                                    \o "<br>(HU) " \o recs[k][6]
            /\ \A j, k \in 1..Len(recs) :
                  (recs[j] # recs[k] /\ Separable(recs[j]) /\ Separable(recs[k]))
                      => anki[j] # anki[k]

\* An export of three records: two separable ones and one without article.
C7_Witness ==
    /\ pc = "idle"
    /\ Len(anki) = 3
    /\ \E j, k \in 1..3 :
          /\ j # k
          /\ Separable(load_data(sheet)[j])
          /\ Separable(load_data(sheet)[k])
    /\ \E m \in 1..3 : load_data(sheet)[m][1] = "-"

\* ------------------------------------------------------------------ C8
\* C8: every record the loop appends has article der, die, das or -.
C8_ArticleValid ==
    \A k \in 1..Len(outcomes) :
        outcomes[k].kind = "Accepted" => outcomes[k].details[1] \in ValidArticles

\* ------------------------------------------------------------------ C9
\* C9: a token that passed the raw check and normalized to a record is
\* skipped exactly when its lower-cased word is a word of the store at batch
\* start or of a record accepted earlier in the batch, and is appended
\* otherwise; the set the next token is checked against holds exactly those
\* words.
C9_PostCheck ==
    /\ \A k \in 1..Len(outcomes) :
          /\ answers[k] \in RecordResponses
                => outcomes[k].kind \in {"SkippedResolved", "Accepted"}
          /\ outcomes[k].kind \in {"SkippedResolved", "Accepted"}
                => (outcomes[k].kind = "SkippedResolved"
                        <=> Lower(outcomes[k].details[2]) \in KnownBefore(k))
    /\ DataRows(sheet) = DataRows(sheet0) \o AcceptedDetails(outcomes)
    /\ pc = "loop" =>
          {existing_words[k] : k \in 1..Len(existing_words)}
              = KnownBefore(Len(outcomes) + 1)

\* On an empty sheet "hund" was accepted as Hund, and "Hunde", lemmatized to
\* Hund, was skipped against it.
C9_Witness ==
    /\ sheet0 = <<>>
    /\ word_list = <<"hund", "Hunde">>
    /\ Len(outcomes) = 2
    /\ outcomes[1].kind = "Accepted"
    /\ outcomes[1].details[2] = "Hund"
    /\ outcomes[2].kind = "SkippedResolved"
    /\ outcomes[2].details[2] = "Hund"
    /\ Len(load_data(sheet)) = 1

\* ----------------------------------------------------------------- C10
\* C10: at every point of a batch the rows present at its start are still
\* there, unchanged and in place; the rows added are the records of the
\* Accepted outcomes in token order; success_count is their number.
C10_AppendOnly ==
    /\ DataRows(sheet) = DataRows(sheet0) \o AcceptedDetails(outcomes)
    /\ sheet0 # <<>> => SubSeq(sheet, 1, Len(sheet0)) = sheet0
    /\ success_count = Len(AcceptedDetails(outcomes))
    /\ success_count = Len(DataRows(sheet)) - Len(DataRows(sheet0))
    /\ (pc = "idle" /\ completed) => (status = "success" <=> success_count > 0)

\* Mid-batch: one record accepted below the record the store already held.
C10_Witness ==
    /\ pc = "loop"
    /\ i = 1
    /\ success_count = 1
    /\ Len(DataRows(sheet0)) = 1
    /\ Len(DataRows(sheet)) = 2

=============================================================================
